---- MODULE Spec2Model ----
(***************************************************************************)
(* Auto-daily-commit system: the orchestrator (AutoCommitService), the     *)
(* commit executor and repository classifier (GitManager) and the          *)
(* persisted scheduler (Scheduler).                                        *)
(*                                                                         *)
(* Texts (error messages, result messages) are records                     *)
(*   [tag, arg, n, marks, cause]                                           *)
(* tag names the message template, arg/n its interpolated values, marks    *)
(* the set of substrings (out of the ones the code searches for) that the  *)
(* lower-cased text contains, cause the tag of a wrapped message.          *)
(***************************************************************************)
EXTENDS Integers, Sequences, FiniteSets, TLC

\* ------------------------------------------------------------------ bounds
MaxFiles == 2
MaxCommits == 2
MaxAttempts == 2
MaxWorkflows == 2
MaxTime == 1
MaxEnv == 1
MaxIoFaults == 1
MaxApi == 3
DayLen == 2          \* clock ticks per calendar day
TzOffset == 1        \* local time = UTC + TzOffset ticks

Procs == 1..MaxWorkflows

\* ------------------------------------------------------------------- texts
Markers == {"no changes", "empty", "not in a clean state"}

\* What a failing git command may print (stderr/stdout end up in the error
\* text): nothing the retry classifier looks for, or e.g. git's
\* "no changes added to commit".
GitOutputMarks == { {}, {"no changes"} }

Txt(tag, arg, n, marks, cause) ==
  [tag |-> tag, arg |-> arg, n |-> n, marks |-> marks, cause |-> cause]

NoText == Txt("undefined", "-", 0, {}, "-")

NoTime == -1000

\* executeGitCommand: `Git command failed: <message>\nstderr: ...\nstdout: ...`
GitCommandFailed(cmd, outMarks) == Txt("Git command failed", cmd, 0, outMarks, "-")

\* `${prefix}: ${inner.message}`
Wrap(prefix, inner) == Txt(prefix, inner.arg, inner.n, inner.marks, inner.tag)

ErrNotClean == Txt("Repository is not in a clean state for auto-commit", "-", 0,
                   {"not in a clean state"}, "-")
ErrNoChanges == Txt("No changes to commit", "-", 0, {"no changes"}, "-")
ErrEmptyMessage == Txt("Commit message cannot be empty", "-", 0, {"empty"}, "-")
ErrNothingStaged == Txt("No files were staged for commit", "-", 0, {}, "-")
ErrWarnNotFunction == Txt("warn is not a function", "-", 0, {}, "-")
ErrConfigNotLoaded == Txt("Configuration not loaded", "-", 0, {}, "-")

MsgNoChanges == Txt("No changes to commit", "-", 0, {"no changes"}, "-")
MsgExecFailed == Txt("Commit execution failed", "-", 0, {}, "-")
MsgCommit(blank) == Txt("commit message", IF blank THEN "blank" ELSE "text", 0, {}, "-")

\* `Repository is not in a clean state (${state}), skipping auto-commit`
WarningMessage(st) == Txt("Repository is not in a clean state (..), skipping auto-commit",
                          st, 0, {"not in a clean state"}, "-")
\* `Repository state: ${state}`
ErrRepositoryState(st) == Txt("Repository state", st, 0, {}, "-")

\* `Failed to create commit after ${maxRetries} attempts: ${lastError?.message}`
ErrExhausted(maxRetries, last) ==
  Txt("Failed to create commit after N attempts", last.arg, maxRetries, last.marks, last.tag)

\* The Logger class has info, debug and error, no warn.
DefaultLoggerHasWarn == FALSE

\* ---------------------------------------------------------------- state
VARIABLES
  now,             \* wall clock
  repo,            \* the git repository / working tree
  faults,          \* transient git failures so far
  envOps,          \* outside changes to the repository so far
  cfg,             \* AutoCommitService.config and the injected logger
  wf,              \* one record per executeCommit / createCommitWithRetry call
  totalCommits,    \* AutoCommitService.totalCommits
  lastCommitDate,  \* AutoCommitService.lastCommitDate
  lastError,       \* AutoCommitService.lastError
  okCount,         \* history: calls that returned success with a commit id
  harness,         \* "service": AutoCommitService drives GitManager and Scheduler;
                   \* "direct": their methods are called directly;
                   \* "lifecycle": schedule/start/stop/updateSchedule are called
                   \* directly on a Scheduler without a state file
  managed,         \* ServiceManager.service is not null
  isInitialized,   \* AutoCommitService.isInitialized
  isServiceRunning,\* AutoCommitService.isServiceRunning
  task,            \* Scheduler.task (the node-cron task) or NoTask
  callback,        \* Scheduler.callback: "none" or the kind of function installed
  cronExpression,  \* Scheduler.cronExpression
  state,           \* Scheduler.state
  file,            \* the persisted scheduler-state file
  ioFaults,        \* file-system failures so far
  hist             \* history of the running process (see HistInit)

vars == <<now, repo, faults, envOps, cfg, wf, totalCommits, lastCommitDate,
          lastError, okCount, harness, managed, isInitialized, isServiceRunning, task,
          callback, cronExpression, state, file, ioFaults, hist>>

schedVars == <<harness, managed, isInitialized, isServiceRunning, task, callback,
               cronExpression, state, file, ioFaults, hist>>

svcVars == <<totalCommits, lastCommitDate, lastError, okCount>>

\* ------------------------------------------------------------ repository
RepoStates == {"clean", "dirty", "merging", "rebasing", "detached", "conflict", "unknown"}

\* the command or file access of the classification that fails for a reason
\* of its own: rev-parse --git-dir, diff --check (with a message that has no
\* 'conflict'), the git directory lookup, fs.access of MERGE_HEAD,
\* symbolic-ref, status --porcelain
ClassFaults == {"none", "revparse", "diffcheck", "gitdir", "mergehead", "symref", "status"}

\* the variant that looks for MERGE_HEAD before the conflict check
GetRepositoryStateMergeFirst(r, f) ==
  IF ~r.isRepo \/ f = "revparse" THEN "unknown"
  ELSE IF f = "gitdir" THEN "unknown"
  ELSE IF r.merging /\ f # "mergehead" THEN "merging"
  ELSE IF r.conflict /\ f # "diffcheck" THEN "conflict"
  ELSE IF r.rebaseMerge \/ r.rebaseApply THEN "rebasing"
  ELSE IF r.detached \/ f = "symref" THEN "detached"
  ELSE IF f = "status" THEN "unknown"
  ELSE IF r.changes > 0 THEN "dirty" ELSE "clean"

getRepositoryState(r, f) ==
  IF ~r.isRepo \/ f = "revparse" THEN "unknown"
  ELSE IF r.conflict /\ f # "diffcheck" THEN "conflict"
  ELSE IF f = "gitdir" THEN "unknown"
  ELSE IF r.merging /\ f # "mergehead" THEN "merging"
  ELSE IF r.rebaseMerge \/ r.rebaseApply THEN "rebasing"
  ELSE IF r.detached \/ f = "symref" THEN "detached"
  ELSE IF f = "status" THEN "unknown"
  ELSE IF r.changes > 0 THEN "dirty" ELSE "clean"

IsSafeState(st) == st = "clean" \/ st = "dirty"

isRepositoryClean(r, f) == IsSafeState(getRepositoryState(r, f))

\* getRepositoryInfo().state: isGitRepository() first, then getRepositoryState()
getRepositoryInfoState(r, f) ==
  IF ~r.isRepo THEN "unknown" ELSE getRepositoryState(r, f)

\* A git command can succeed only inside a repository; it can fail there
\* transiently while the fault budget lasts.
CanSucceed == repo.isRepo
\* failures of git commands and outside changes share one budget
EnvBudget == faults + envOps < MaxEnv
CanFail == ~repo.isRepo \/ EnvBudget
FaultsAfterFail == IF repo.isRepo THEN faults + 1 ELSE faults
ClassFaultOk(f) == f = "none" \/ EnvBudget
FaultsAfterClass(f) == IF f = "none" THEN faults ELSE faults + 1

\* ------------------------------------------------------------- workflows
NoRes == [kind |-> "none", success |-> FALSE, commitHash |-> 0, message |-> NoText,
          filesChanged |-> 0, error |-> NoText, timestamp |-> NoTime]

ResOk(hash, msg, files, ts) ==
  [kind |-> "returned", success |-> TRUE, commitHash |-> hash, message |-> msg,
   filesChanged |-> files, error |-> NoText, timestamp |-> ts]

ResFail(msg, files, err, ts) ==
  [kind |-> "returned", success |-> FALSE, commitHash |-> 0, message |-> msg,
   filesChanged |-> files, error |-> err, timestamp |-> ts]

NoChangesResultAsFailure(ts) == ResFail(MsgNoChanges, 0, ErrNoChanges, ts)

\* executeCommit step 1: nothing to commit is a success without a commit id
NoChangesResult(ts) == ResOk(0, MsgNoChanges, 0, ts)

\* createCommitWithRetry called directly: resolves with a hash or rejects
ResHash(hash) ==
  [kind |-> "returned", success |-> TRUE, commitHash |-> hash, message |-> NoText,
   filesChanged |-> 0, error |-> NoText, timestamp |-> NoTime]

ResThrew(err) ==
  [kind |-> "threw", success |-> FALSE, commitHash |-> 0, message |-> NoText,
   filesChanged |-> 0, error |-> err, timestamp |-> NoTime]

\* pc, kind, start .. hash are the locals of the call; the rest is history:
\* noChanges that executeCommit found nothing to commit,
\* unsafeSeen the state that made executeCommit skip, nrAt/nrErr the attempt
\* number and error of a failed commit precondition, genFails the attempts
\* that failed in any other way and genErr the last such error, attempts,
\* delays, stages, commits the createCommit calls, sleeps, `git add` and
\* `git commit` invocations, snapTotal/snapLast the service counters when the
\* call began.  own is the commit the call's last successful `git commit`
\* created.  message is the text handed to createCommit and arg what
\* createCommit puts between the double quotes of `commit -m "..."`; blank
\* stands for message.trim().length === 0 where the text itself is not kept.
IdleWf == [pc |-> "idle", kind |-> "exec", start |-> NoTime, files |-> 0,
           blank |-> FALSE, message |-> <<>>, arg |-> <<>>, template |-> <<>>,
           own |-> 0, max |-> 0, attempt |-> 0, hash |-> 0, res |-> NoRes,
           noChanges |-> FALSE, unsafeSeen |-> "-", nrAt |-> 0, nrErr |-> NoText,
           genFails |-> 0, genErr |-> NoText,
           attempts |-> 0, delays |-> 0, stages |-> 0, commits |-> 0,
           snapTotal |-> 0, snapLast |-> NoTime]

Quiet(w) == wf[w].pc \in {"idle", "done"}
AllQuiet == \A w \in Procs : Quiet(w)

\* ----------------------------------------------------------------- Init
RepoInit ==
  { r \in [isRepo : BOOLEAN, conflict : BOOLEAN, merging : BOOLEAN,
           rebaseMerge : BOOLEAN, rebaseApply : BOOLEAN, detached : BOOLEAN,
           changes : 0..MaxFiles, staged : {0}, head : {0}] :
      /\ Cardinality({k \in {"conflict", "merging", "rebaseMerge", "rebaseApply", "detached"} : r[k]}) <= 1
      /\ (~r.isRepo => ~(r.conflict \/ r.merging \/ r.rebaseMerge \/ r.rebaseApply \/ r.detached)) }

\* maxRetries values told apart: none, one, several
RetryChoices == {0, 1, MaxAttempts}

CfgInit ==
  [loaded : BOOLEAN, retryAttempts : RetryChoices, loggerHasWarn : BOOLEAN,
   enabled : {TRUE}, commitTime : {"0 0 * * *"}]

\* ---- scheduler data
\* Date.toISOString(): the UTC date and time of day; new Date(iso) parses it
toISOString(t) == [date |-> t \div DayLen, time |-> t % DayLen]
ParseISO(iso) == iso.date * DayLen + iso.time
NoIso == [date |-> NoTime, time |-> 0]

\* getFullYear/getMonth/getDate and getHours/getMinutes read local time
LocalDay(t) == (t + TzOffset) \div DayLen
LocalSlot(t) == (t + TzOffset) % DayLen

\* the hour field of the cron expressions used, as a slot of the day
Crons == {"0 0 * * *", "0 12 * * *"}
CronSlot(expr) == IF expr = "0 0 * * *" THEN 0 ELSE 1
InvalidCron == "invalid-cron"

\* cron.validate(cronExpression), and the variant that accepts everything
ValidateAny(expr) == TRUE

validate(expr) == expr \in Crons

NoTask == [expr |-> "", cb |-> "none", timerOn |-> FALSE]

\* the constructor's this.state
DefaultState == [lastRun |-> NoIso, nextRun |-> NoIso, isActive |-> FALSE,
                 cronExpression |-> "", missedExecutions |-> <<>>]

NoFile == [kind |-> "none", data |-> DefaultState]

\* hm: the last handleMissedExecutions() call of this process; cbCalls: the
\* callback invocations; recoveries: those made by handleMissedExecutions;
\* bootLastRun: the persisted lastRun when AutoCommitService.initialize() ran;
\* bootAt: when it ran; lastFired: the boundary of the last timer fire;
\* api: the direct API calls and the clock ticks so far outside the
\* "service" harness (by all processes);
\* boots: the processes before this one
\* read: how reading the file went; init: the call was made by
\* Scheduler.initialize(); initFailed: that initialize() threw
NoHm == [called |-> FALSE, ret |-> FALSE, rejected |-> FALSE, at |-> NoTime,
         fileLastRun |-> NoIso,
         lastRun |-> NoIso, cb |-> "none", loaded |-> <<>>, after |-> <<>>,
         calls |-> 0, read |-> "ok", init |-> FALSE, initFailed |-> FALSE]

\* out: the last call of the scheduler API in the "lifecycle" harness: its
\* name, its argument, the message of the error it threw ("" when it
\* returned), and isRunning() and this.cronExpression before it
NoOut == [op |-> "none", arg |-> "", err |-> "", wasRunning |-> FALSE, wasExpr |-> ""]

\* orphans: cron tasks still alive in node-cron that this.task no longer
\* refers to; fired: the timers that fired at lastFired
HistInit == [hm |-> NoHm, cbCalls |-> 0, recoveries |-> 0, bootLastRun |-> NoIso,
             bootAt |-> NoTime, lastFired |-> NoTime, api |-> 0, boots |-> 0,
             out |-> NoOut, orphans |-> {}, fired |-> {}]

SchedulerIdle ==
  /\ managed = FALSE
  /\ isInitialized = FALSE
  /\ isServiceRunning = FALSE
  /\ task = NoTask
  /\ callback = "none"
  /\ cronExpression = ""
  /\ state = DefaultState
  /\ ioFaults = 0
  /\ hist = HistInit

\* GitManager called directly reads no configuration
Init ==
  /\ harness \in {"service", "direct"}
  /\ SchedulerIdle
  /\ file = NoFile
  /\ now = 0
  /\ repo \in RepoInit
  /\ faults = 0
  /\ envOps = 0
  /\ cfg \in CfgInit
  /\ (harness = "direct" => cfg = [loaded |-> FALSE, retryAttempts |-> 0,
                                    loggerHasWarn |-> FALSE, enabled |-> TRUE,
                                    commitTime |-> "0 0 * * *"])
  /\ wf = [w \in Procs |-> IdleWf]
  /\ totalCommits = 0
  /\ lastCommitDate = NoTime
  /\ lastError = NoText
  /\ okCount = 0

\* ---------------------------------------------- createCommitWithRetry
PreconditionTags == {ErrNotClean.tag, ErrNoChanges.tag, ErrEmptyMessage.tag}

IsNonRetryableNarrow(e) ==
  \/ "empty" \in e.marks
  \/ "not in a clean state" \in e.marks

\* error.message.toLowerCase().includes(..) for the three texts
IsNonRetryable(e) ==
  \/ "no changes" \in e.marks
  \/ "empty" \in e.marks
  \/ "not in a clean state" \in e.marks

RetryThrowKeepsLastError(w, x, e) ==
  /\ wf' = [wf EXCEPT ![w] = [x EXCEPT !.pc = "done",
              !.res = IF x.kind = "exec"
                      THEN ResFail(MsgCommit(x.blank), x.files, e, x.start)
                      ELSE ResThrew(e)]]
  /\ UNCHANGED svcVars

\* What the caller of createCommitWithRetry does with a rejection:
\* executeCommit's inner catch, or the direct caller seeing the rejection.
RetryThrow(w, x, e) ==
  IF x.kind = "exec"
  THEN /\ wf' = [wf EXCEPT ![w] = [x EXCEPT !.pc = "done",
                   !.res = ResFail(MsgCommit(x.blank), x.files, e, x.start)]]
       /\ lastError' = e
       /\ UNCHANGED <<totalCommits, lastCommitDate, okCount>>
  ELSE /\ wf' = [wf EXCEPT ![w] = [x EXCEPT !.pc = "done", !.res = ResThrew(e)]]
       /\ UNCHANGED svcVars

RetryReturnStampsNow(w, x, hash) ==
  IF x.kind = "exec"
  THEN /\ wf' = [wf EXCEPT ![w] = [x EXCEPT !.pc = "done",
                   !.res = ResOk(hash, MsgCommit(x.blank), x.files, x.start)]]
       /\ totalCommits' = totalCommits + 1
       /\ lastCommitDate' = now
       /\ lastError' = NoText
       /\ okCount' = okCount + 1
  ELSE /\ wf' = [wf EXCEPT ![w] = [x EXCEPT !.pc = "done", !.res = ResHash(hash)]]
       /\ UNCHANGED svcVars

\* ... and with a resolved commit hash: executeCommit step 6.
RetryReturn(w, x, hash) ==
  IF x.kind = "exec"
  THEN /\ wf' = [wf EXCEPT ![w] = [x EXCEPT !.pc = "done",
                   !.res = ResOk(hash, MsgCommit(x.blank), x.files, x.start)]]
       /\ totalCommits' = totalCommits + 1
       /\ lastCommitDate' = x.start
       /\ lastError' = NoText
       /\ okCount' = okCount + 1
  ELSE /\ wf' = [wf EXCEPT ![w] = [x EXCEPT !.pc = "done", !.res = ResHash(hash)]]
       /\ UNCHANGED svcVars

\* history bookkeeping for a failed attempt
NoteFailure(x, e) ==
  IF e.tag \in PreconditionTags
  THEN [x EXCEPT !.nrAt = x.attempt, !.nrErr = e]
  ELSE [x EXCEPT !.genFails = @ + 1, !.genErr = e]

\* The catch block of the retry loop, entered with the error of attempt
\* x.attempt, and what follows it (sleep and next attempt, or the final throw).
AttemptFailed(w, x0, e) ==
  LET x == NoteFailure(x0, e) IN
  IF IsNonRetryable(e) THEN RetryThrow(w, x, e)
  ELSE IF x.attempt < x.max
       THEN IF DefaultLoggerHasWarn
            THEN /\ wf' = [wf EXCEPT ![w] = [x EXCEPT !.pc = "cc_clean",
                             !.attempt = @ + 1, !.attempts = @ + 1, !.delays = @ + 1]]
                 /\ UNCHANGED svcVars
            ELSE RetryThrow(w, x, ErrWarnNotFunction)
       ELSE RetryThrow(w, x, ErrExhausted(x.max, e))

\* for (attempt = 1; attempt <= maxRetries; ...)
EnterRetry(w, x) ==
  IF 1 <= x.max
  THEN /\ wf' = [wf EXCEPT ![w] = [x EXCEPT !.pc = "cc_clean", !.attempt = 1, !.attempts = 1]]
       /\ UNCHANGED svcVars
  ELSE RetryThrow(w, x, ErrExhausted(x.max, NoText))

\* --------------------------------------------------------- createCommit
CreateCommitCheckState(w) ==
  /\ wf[w].pc = "cc_clean"
  /\ \E f \in ClassFaults :
       /\ ClassFaultOk(f)
       /\ faults' = FaultsAfterClass(f)
       /\ IF isRepositoryClean(repo, f)
          THEN /\ wf' = [wf EXCEPT ![w].pc = "cc_changes"]
               /\ UNCHANGED svcVars
          ELSE AttemptFailed(w, wf[w], ErrNotClean)
  /\ UNCHANGED <<now, repo, envOps, cfg, schedVars>>

\* the variant that validates the message before looking for changes
CreateCommitCheckMessageFirst(w) ==
  /\ wf[w].pc = "cc_changes"
  /\ \/ /\ CanFail
        /\ faults' = FaultsAfterFail
        /\ \E m \in GitOutputMarks :
             AttemptFailed(w, wf[w], Wrap("Failed to check for changes",
                                          GitCommandFailed("status", m)))
     \/ /\ CanSucceed
        /\ UNCHANGED faults
        /\ IF wf[w].blank THEN AttemptFailed(w, wf[w], ErrEmptyMessage)
           ELSE IF repo.changes = 0 THEN AttemptFailed(w, wf[w], ErrNoChanges)
           ELSE /\ wf' = [wf EXCEPT ![w].pc = "cc_add"]
                /\ UNCHANGED svcVars
  /\ UNCHANGED <<now, repo, envOps, cfg, schedVars>>

CreateCommitCheckChanges(w) ==
  /\ wf[w].pc = "cc_changes"
  /\ \/ /\ CanFail
        /\ faults' = FaultsAfterFail
        /\ \E m \in GitOutputMarks :
             AttemptFailed(w, wf[w], Wrap("Failed to check for changes",
                                          GitCommandFailed("status", m)))
     \/ /\ CanSucceed
        /\ UNCHANGED faults
        /\ IF repo.changes = 0 THEN AttemptFailed(w, wf[w], ErrNoChanges)
           ELSE IF wf[w].blank THEN AttemptFailed(w, wf[w], ErrEmptyMessage)
           ELSE /\ wf' = [wf EXCEPT ![w].pc = "cc_add"]
                /\ UNCHANGED svcVars
  /\ UNCHANGED <<now, repo, envOps, cfg, schedVars>>

CreateCommitStage(w) ==
  /\ wf[w].pc = "cc_add"
  /\ LET x == [wf[w] EXCEPT !.stages = @ + 1] IN
     \/ /\ CanFail
        /\ faults' = FaultsAfterFail
        /\ UNCHANGED repo
        /\ \E m \in GitOutputMarks :
             AttemptFailed(w, x, Wrap("Failed to create commit", GitCommandFailed("add", m)))
     \/ /\ CanSucceed
        /\ UNCHANGED faults
        /\ repo' = [repo EXCEPT !.staged = repo.changes]
        /\ wf' = [wf EXCEPT ![w] = [x EXCEPT !.pc = "cc_staged"]]
        /\ UNCHANGED svcVars
  /\ UNCHANGED <<now, envOps, cfg, schedVars>>

CreateCommitVerifyStaged(w) ==
  /\ wf[w].pc = "cc_staged"
  /\ \/ /\ CanFail
        /\ faults' = FaultsAfterFail
        /\ \E m \in GitOutputMarks :
             AttemptFailed(w, wf[w], Wrap("Failed to create commit",
                                          GitCommandFailed("status --cached", m)))
     \/ /\ CanSucceed
        /\ UNCHANGED faults
        /\ IF repo.staged = 0 THEN AttemptFailed(w, wf[w], ErrNothingStaged)
           ELSE /\ wf' = [wf EXCEPT ![w].pc = "cc_commit"]
                /\ UNCHANGED svcVars
  /\ UNCHANGED <<now, repo, envOps, cfg, schedVars>>

CreateCommitCommit(w) ==
  /\ wf[w].pc = "cc_commit"
  /\ LET x == [wf[w] EXCEPT !.commits = @ + 1] IN
     \/ /\ CanFail \/ repo.staged = 0
        /\ faults' = IF repo.staged = 0 THEN faults ELSE FaultsAfterFail
        /\ UNCHANGED repo
        /\ \E m \in GitOutputMarks :
             AttemptFailed(w, x, Wrap("Failed to create commit", GitCommandFailed("commit", m)))
     \/ /\ CanSucceed /\ repo.staged > 0
        /\ UNCHANGED faults
        /\ repo' = [repo EXCEPT !.head = @ + 1, !.changes = repo.changes - repo.staged,
                                !.staged = 0]
        /\ wf' = [wf EXCEPT ![w] = [x EXCEPT !.pc = "cc_hash", !.own = repo.head + 1]]
        /\ UNCHANGED svcVars
  /\ UNCHANGED <<now, envOps, cfg, schedVars>>

CreateCommitGetHash(w) ==
  /\ wf[w].pc = "cc_hash"
  /\ \/ /\ CanFail
        /\ faults' = FaultsAfterFail
        /\ \E m \in GitOutputMarks :
             AttemptFailed(w, wf[w], Wrap("Failed to get latest commit hash",
                                          GitCommandFailed("rev-parse HEAD", m)))
     \/ /\ CanSucceed
        /\ UNCHANGED faults
        /\ wf' = [wf EXCEPT ![w].pc = "cc_files", ![w].hash = repo.head]
        /\ UNCHANGED svcVars
  /\ UNCHANGED <<now, repo, envOps, cfg, schedVars>>

\* getChangedFilesFromCommit: on failure it calls defaultLogger.warn before
\* returning []
CreateCommitCountFiles(w) ==
  /\ wf[w].pc = "cc_files"
  /\ \/ /\ CanFail
        /\ faults' = FaultsAfterFail
        /\ IF DefaultLoggerHasWarn
           THEN RetryReturn(w, wf[w], wf[w].hash)
           ELSE AttemptFailed(w, wf[w], Wrap("Failed to create commit", ErrWarnNotFunction))
     \/ /\ CanSucceed
        /\ UNCHANGED faults
        /\ RetryReturn(w, wf[w], wf[w].hash)
  /\ UNCHANGED <<now, repo, envOps, cfg, schedVars>>

\* a direct call createCommitWithRetry(message, maxRetries, delay)
ActiveCount == Cardinality({w \in Procs : ~Quiet(w)})
Capacity == repo.head + ActiveCount < MaxCommits

CreateCommitWithRetryCall(w) ==
  /\ Quiet(w)
  /\ Capacity
  /\ harness = "direct"
  /\ \E blank \in BOOLEAN, max \in RetryChoices :
       EnterRetry(w, [IdleWf EXCEPT !.kind = "direct", !.blank = blank, !.max = max,
                                    !.snapTotal = totalCommits, !.snapLast = lastCommitDate])
  /\ UNCHANGED <<now, repo, faults, envOps, cfg, schedVars>>

\* --------------------------------------------------------- executeCommit
OuterCatchRethrows(w, x, e) ==
  /\ wf' = [wf EXCEPT ![w] = [x EXCEPT !.pc = "done", !.res = ResThrew(e)]]
  /\ lastError' = e
  /\ UNCHANGED <<totalCommits, lastCommitDate, okCount>>

\* the outer catch of executeCommit
OuterCatch(w, x, e) ==
  /\ wf' = [wf EXCEPT ![w] = [x EXCEPT !.pc = "done",
              !.res = ResFail(MsgExecFailed, 0, e, x.start)]]
  /\ lastError' = e
  /\ UNCHANGED <<totalCommits, lastCommitDate, okCount>>

ExecuteCommitBegin(w) ==
  /\ harness = "service"
  /\ Quiet(w)
  /\ Capacity
  /\ LET x == [IdleWf EXCEPT !.kind = "exec", !.start = now,
                             !.snapTotal = totalCommits, !.snapLast = lastCommitDate] IN
     IF ~cfg.loaded THEN OuterCatch(w, x, ErrConfigNotLoaded)
     ELSE /\ wf' = [wf EXCEPT ![w] = [x EXCEPT !.pc = "hasChanges"]]
          /\ UNCHANGED svcVars
  /\ UNCHANGED <<now, repo, faults, envOps, cfg, schedVars>>

ExecuteCommitHasChanges(w) ==
  /\ wf[w].pc = "hasChanges"
  /\ \/ /\ CanFail
        /\ faults' = FaultsAfterFail
        /\ \E m \in GitOutputMarks :
             OuterCatch(w, wf[w], Wrap("Failed to check for changes",
                                       GitCommandFailed("status", m)))
     \/ /\ CanSucceed
        /\ UNCHANGED faults
        /\ IF repo.changes = 0
           THEN /\ wf' = [wf EXCEPT ![w].pc = "done", ![w].noChanges = TRUE,
                                    ![w].res = NoChangesResult(wf[w].start)]
                /\ UNCHANGED svcVars
           ELSE /\ wf' = [wf EXCEPT ![w].pc = "isClean"]
                /\ UNCHANGED svcVars
  /\ UNCHANGED <<now, repo, envOps, cfg, schedVars>>

\* isRepositoryClean() in executeCommit, with the check f failing
ExecuteCommitCheckStateWith(w, f) ==
  /\ wf[w].pc = "isClean"
  /\ ClassFaultOk(f)
  /\ faults' = FaultsAfterClass(f)
  /\ LET st == getRepositoryState(repo, f) IN
     IF IsSafeState(st)
     THEN wf' = [wf EXCEPT ![w].pc = "files"]
     ELSE wf' = [wf EXCEPT ![w].pc = "repoInfo", ![w].unsafeSeen = st]
  /\ UNCHANGED <<now, repo, envOps, cfg, schedVars>>
  /\ UNCHANGED svcVars

ExecuteCommitCheckState(w) == \E f \in ClassFaults : ExecuteCommitCheckStateWith(w, f)

\* the unsafe branch: getRepositoryInfo(), logger.warn, lastError, return
ExecuteCommitSkipUnsafe(w) ==
  /\ wf[w].pc = "repoInfo"
  /\ \E f \in ClassFaults :
       /\ ClassFaultOk(f)
       /\ faults' = FaultsAfterClass(f)
       /\ LET st == getRepositoryInfoState(repo, f) IN
          IF cfg.loggerHasWarn
          THEN /\ wf' = [wf EXCEPT ![w].pc = "done",
                           ![w].res = ResFail(WarningMessage(st), 0,
                                              ErrRepositoryState(st), wf[w].start)]
               /\ lastError' = WarningMessage(st)
               /\ UNCHANGED <<totalCommits, lastCommitDate, okCount>>
          ELSE OuterCatch(w, wf[w], ErrWarnNotFunction)
  /\ UNCHANGED <<now, repo, envOps, cfg, schedVars>>

\* getChangedFiles, generateCommitMessage, then into createCommitWithRetry
ExecuteCommitListFiles(w) ==
  /\ wf[w].pc = "files"
  /\ \/ /\ CanFail
        /\ faults' = FaultsAfterFail
        /\ \E m \in GitOutputMarks :
             OuterCatch(w, wf[w], Wrap("Failed to get changed files",
                                       GitCommandFailed("status", m)))
     \/ /\ CanSucceed
        /\ UNCHANGED faults
        /\ EnterRetry(w, [wf[w] EXCEPT !.files = repo.changes, !.blank = FALSE,
                                       !.max = cfg.retryAttempts])
  /\ UNCHANGED <<now, repo, envOps, cfg, schedVars>>

\* ------------------------------------------------------------ environment
\* the clock advances; outside the "service" harness a tick counts as one
\* step of the driver
Tick ==
  /\ now < MaxTime
  /\ now' = now + 1
  /\ harness = "service" \/ hist.api < MaxApi
  /\ hist' = [hist EXCEPT !.api = IF harness = "service" THEN @ ELSE @ + 1]
  /\ UNCHANGED <<repo, faults, envOps, cfg, wf, svcVars, harness, managed, isInitialized,
                 isServiceRunning, task, callback, cronExpression, state, file, ioFaults>>

\* somebody edits or reverts a file in the working tree
EnvEditFiles ==
  /\ EnvBudget
  /\ envOps' = envOps + 1
  /\ repo.isRepo
  /\ \/ /\ repo.changes < MaxFiles
        /\ repo' = [repo EXCEPT !.changes = @ + 1]
     \/ /\ repo.changes > 0
        /\ repo' = [repo EXCEPT !.changes = @ - 1,
                                !.staged = IF @ > repo.changes - 1 THEN repo.changes - 1 ELSE @]
  /\ UNCHANGED <<now, faults, cfg, wf, svcVars, schedVars>>

\* somebody starts or finishes a merge/rebase, checks out a commit, ...
EnvSetMarker ==
  /\ EnvBudget
  /\ envOps' = envOps + 1
  /\ repo.isRepo
  /\ \E k \in {"conflict", "merging", "rebaseMerge", "rebaseApply", "detached"} :
       repo' = [repo EXCEPT ![k] = ~@]
  /\ UNCHANGED <<now, faults, cfg, wf, svcVars, schedVars>>

WorkflowStep(w) ==
  \/ ExecuteCommitHasChanges(w)
  \/ ExecuteCommitCheckState(w)
  \/ ExecuteCommitSkipUnsafe(w)
  \/ ExecuteCommitListFiles(w)
  \/ CreateCommitCheckState(w)
  \/ CreateCommitCheckChanges(w)
  \/ CreateCommitStage(w)
  \/ CreateCommitVerifyStaged(w)
  \/ CreateCommitCommit(w)
  \/ CreateCommitGetHash(w)
  \/ CreateCommitCountFiles(w)

\* the call slot the specifications below drive
Callers == {1}

\* ============================================================ Scheduler
MaxMissed == 10

KeepOldest(ms) == IF Len(ms) > MaxMissed THEN SubSeq(ms, 1, MaxMissed) ELSE ms

\* if (length > 10) missedExecutions = missedExecutions.slice(-10)
KeepLast(ms) ==
  IF Len(ms) > MaxMissed THEN SubSeq(ms, Len(ms) - MaxMissed + 1, Len(ms)) ELSE ms

ShouldHaveRunSinceUTC(expr, lastRun, currentTime) ==
  IF expr = "" THEN FALSE
  ELSE currentTime \div DayLen > lastRun \div DayLen

shouldHaveRunSince(expr, lastRun, currentTime) ==
  IF expr = "" THEN FALSE
  ELSE LocalDay(currentTime) > LocalDay(lastRun)

\* the variant that keeps a candidate equal to fromDate
GetNextCronDateStrict(expr, fromDate) ==
  LET next == LocalDay(fromDate) * DayLen + CronSlot(expr) - TzOffset IN
  IF next < fromDate THEN next + DayLen ELSE next

getNextCronDate(expr, fromDate) ==
  LET next == LocalDay(fromDate) * DayLen + CronSlot(expr) - TzOffset IN
  IF next <= fromDate THEN next + DayLen ELSE next

calculateNextRun(st, expr, t) ==
  IF expr = "" THEN st
  ELSE [st EXCEPT !.nextRun = toISOString(getNextCronDate(expr, t))]

updateLastRun(st, expr, t) ==
  calculateNextRun([st EXCEPT !.lastRun = toISOString(t)], expr, t)

\* fs.readFile and JSON.parse in loadState(): ENOENT, another read error, a
\* parse error, or a parsed object
ReadResult(f, readOk) ==
  IF f.kind = "none" THEN "enoent"
  ELSE IF ~readOk THEN "eio"
  ELSE IF f.kind = "corrupt" THEN "corrupt" ELSE "ok"

\* the variant of loadState() that lets errors other than ENOENT escape
LoadRaisesUnlessMissing(f, readOk) == ReadResult(f, readOk) \in {"eio", "corrupt"}

\* the variant that lets only a failed read escape
LoadRaisesOnReadError(f, readOk) == ReadResult(f, readOk) = "eio"

\* whether an error escapes loadState(): its catch logs every error
LoadRaises(f, readOk) == FALSE

\* the variant of loadState() that does not take isActive and the history
\* from the file
LoadStateTimesOnly(st, f, readOk) ==
  IF f.kind = "json" /\ readOk
  THEN [lastRun |-> IF f.data.lastRun # NoIso THEN f.data.lastRun ELSE st.lastRun,
        nextRun |-> IF f.data.nextRun # NoIso THEN f.data.nextRun ELSE st.nextRun,
        isActive |-> st.isActive,
        cronExpression |-> f.data.cronExpression,
        missedExecutions |-> st.missedExecutions]
  ELSE st

\* this.state = {...this.state, ...loadedState, missedExecutions: ...};
\* a missing or unreadable file leaves this.state alone
loadState(st, f, readOk) ==
  IF f.kind = "json" /\ readOk
  THEN [lastRun |-> IF f.data.lastRun # NoIso THEN f.data.lastRun ELSE st.lastRun,
        nextRun |-> IF f.data.nextRun # NoIso THEN f.data.nextRun ELSE st.nextRun,
        isActive |-> f.data.isActive,
        cronExpression |-> f.data.cronExpression,
        missedExecutions |-> f.data.missedExecutions]
  ELSE st

\* writeFile(JSON.stringify(this.state)); a failure is logged and swallowed
saveState(st, f, writeOk) ==
  IF writeOk THEN [kind |-> "json", data |-> st] ELSE f

\* The scheduler object and its file as one record, so that the methods
\* compose: S = [task, callback, cronExpression, state, file]
SchedulerNow ==
  [task |-> task, callback |-> callback, cronExpression |-> cronExpression,
   state |-> state, file |-> file]

\* task.stop() and task.destroy() inside stop(): both return, or one throws
Cancels == {"ok", "stopThrows", "destroyThrows"}

\* the try block of stop() ran to its end (and issued saveState())
Stopped(S, cancel) == S.task # NoTask /\ cancel = "ok"

\* stop() without its save; the write it starts is done after the caller's
\* synchronous code, so a caller that goes on changing this.state saves its
\* own final state. When task.stop() or task.destroy() throws, the catch only
\* logs: this.task and state.isActive stay as they were.
DoStop(S, cancel) ==
  IF S.task = NoTask THEN S
  ELSE IF cancel = "ok" THEN [S EXCEPT !.task = NoTask, !.state.isActive = FALSE]
  ELSE IF cancel = "destroyThrows" THEN [S EXCEPT !.task.timerOn = FALSE]
  ELSE S

DoSave(S, writeOk) == [S EXCEPT !.file = saveState(S.state, S.file, writeOk)]

\* schedule(cronExpression, callback) with a valid expression
DoSchedule(S, expr, cb, t, cancel, writeOk) ==
  LET S1 == DoStop(S, cancel)
      S2 == [S1 EXCEPT !.callback = cb, !.cronExpression = expr,
                       !.task = [expr |-> expr, cb |-> cb, timerOn |-> TRUE],
                       !.state = calculateNextRun(
                                   [S1.state EXCEPT !.cronExpression = expr,
                                                    !.isActive = FALSE], expr, t)]
  IN IF Stopped(S, cancel) THEN DoSave(S2, writeOk) ELSE S2

\* the task schedule() overwrites in this.task while its timer is still on
Orphaned(S, cancel) ==
  IF S.task # NoTask /\ DoStop(S, cancel).task.timerOn
  THEN {[expr |-> S.task.expr, cb |-> S.task.cb]}
  ELSE {}

isRunning(S) == S.task # NoTask /\ S.state.isActive

\* the variant of start() without the isRunning() test
DoStartAgain(S, t, writeOk) ==
  DoSave([S EXCEPT !.task.timerOn = TRUE,
                   !.state = calculateNextRun([S.state EXCEPT !.isActive = TRUE],
                                              S.cronExpression, t)], writeOk)

\* start() when a task is scheduled
DoStart(S, t, writeOk) ==
  IF isRunning(S) THEN S
  ELSE DoSave([S EXCEPT !.task.timerOn = TRUE,
                        !.state = calculateNextRun([S.state EXCEPT !.isActive = TRUE],
                                                   S.cronExpression, t)], writeOk)

\* the variant of updateSchedule() that never calls start()
DoUpdateScheduleOnly(S, expr, t, cancel, writeOk) ==
  IF S.callback = "none" THEN S
  ELSE DoSchedule(S, expr, S.callback, t, cancel, writeOk)

\* updateSchedule(cronExpression) with a valid expression different from
\* this.cronExpression
DoUpdateSchedule(S, expr, t, cancel, writeOk) ==
  IF S.callback = "none" THEN S
  ELSE LET S1 == DoSchedule(S, expr, S.callback, t, cancel, writeOk) IN
       IF isRunning(S) THEN DoStart(S1, t, writeOk) ELSE S1

ErrInvalidCron == "Failed to schedule task: Invalid cron expression: invalid-cron"
ErrNoTask == "No task scheduled. Call schedule() first."

Out(op, arg, err) ==
  IF harness = "lifecycle"
  THEN [op |-> op, arg |-> arg, err |-> err, wasRunning |-> isRunning(SchedulerNow),
        wasExpr |-> cronExpression]
  ELSE NoOut

\* handleMissedExecutions(): the scheduler afterwards, the value returned,
\* whether the promise rejected, the number of callback invocations, and the
\* state right after loadState
DoHandleMissed(S, t, readOk, writeOk) ==
  LET st1 == loadState(S.state, S.file, readOk)
      S1 == [S EXCEPT !.state = st1]
      quiet == [S |-> S1, ret |-> FALSE, rejected |-> FALSE, invoked |-> 0,
                loaded |-> st1]
  IN
  IF st1.lastRun = NoIso \/ S.callback = "none" THEN quiet
  ELSE IF shouldHaveRunSince(S.cronExpression, ParseISO(st1.lastRun), t)
  THEN LET st2 == [st1 EXCEPT !.missedExecutions = KeepLast(Append(@, toISOString(t)))] IN
       IF S.callback = "throws"
       THEN \* the inner catch rethrows, the outer catch logs and returns false
            [S |-> [S EXCEPT !.state = st2], ret |-> FALSE, rejected |-> FALSE,
             invoked |-> 1, loaded |-> st1]
       ELSE [S |-> DoSave([S EXCEPT !.state = updateLastRun(st2, S.cronExpression, t)],
                          writeOk),
             ret |-> TRUE, rejected |-> FALSE, invoked |-> 1, loaded |-> st1]
  ELSE quiet

FileLastRun(f, readOk) == IF f.kind = "json" /\ readOk THEN f.data.lastRun ELSE NoIso

HmRecord(S, r, t, readOk) ==
  [called |-> TRUE, ret |-> r.ret, rejected |-> r.rejected, at |-> t,
   fileLastRun |-> FileLastRun(S.file, readOk),
   lastRun |-> r.loaded.lastRun, cb |-> S.callback,
   loaded |-> r.loaded.missedExecutions, after |-> r.S.state.missedExecutions,
   calls |-> r.invoked, read |-> ReadResult(S.file, readOk), init |-> FALSE,
   initFailed |-> FALSE]

NoteHandled(h, S, r, t, readOk) ==
  [h EXCEPT !.hm = HmRecord(S, r, t, readOk),
            !.api = IF harness # "service" THEN @ + 1 ELSE @,
            !.cbCalls = @ + r.invoked,
            !.recoveries = @ + r.invoked]

SetScheduler(S) ==
  /\ task' = S.task
  /\ callback' = S.callback
  /\ cronExpression' = S.cronExpression
  /\ state' = S.state
  /\ file' = S.file

\* one budget for the events of the environment: failed file or timer
\* operations and process restarts
IoOk(readOk, writeOk) == (readOk /\ writeOk) \/ ioFaults + hist.boots < MaxIoFaults
IoAfter(readOk, writeOk) == IF readOk /\ writeOk THEN ioFaults ELSE ioFaults + 1

notSched == <<repo, faults, envOps, wf, svcVars>>

\* ---- the Scheduler API used directly
\* writeOk = FALSE is a choice only for a call that writes the file
\* a throw of task.stop()/task.destroy() is a choice only for a call that
\* stops a task
ScheduleCall(expr, cb, cancel, writeOk) ==
  /\ harness \in {"direct", "lifecycle"}
  /\ hist.api < MaxApi
  /\ cancel = "ok" \/ (harness = "lifecycle" /\ validate(expr) /\ task # NoTask)
  /\ writeOk \/ (validate(expr) /\ Stopped(SchedulerNow, cancel))
  /\ IoOk(cancel = "ok", writeOk)
  /\ ioFaults' = IoAfter(cancel = "ok", writeOk)
  /\ IF validate(expr)
     THEN /\ SetScheduler(DoSchedule(SchedulerNow, expr, cb, now, cancel, writeOk))
          /\ hist' = [hist EXCEPT !.api = @ + 1, !.out = Out("schedule", expr, ""),
                                  !.orphans = @ \cup Orphaned(SchedulerNow, cancel)]
     ELSE /\ UNCHANGED <<task, callback, cronExpression, state, file>>
          /\ hist' = [hist EXCEPT !.api = @ + 1,
                                  !.out = Out("schedule", expr, ErrInvalidCron)]
  /\ UNCHANGED <<now, cfg, harness, managed, isInitialized, isServiceRunning>>
  /\ UNCHANGED notSched

Schedule ==
  \E expr \in Crons \cup {InvalidCron}, cb \in {"ok", "throws"}, cancel \in Cancels,
     writeOk \in BOOLEAN : ScheduleCall(expr, cb, cancel, writeOk)

StartCall(writeOk) ==
  /\ harness \in {"direct", "lifecycle"}
  /\ hist.api < MaxApi
  /\ writeOk \/ (task # NoTask /\ ~isRunning(SchedulerNow))
  /\ IoOk(TRUE, writeOk)
  /\ ioFaults' = IoAfter(TRUE, writeOk)
  /\ IF task = NoTask
     THEN /\ UNCHANGED <<task, callback, cronExpression, state, file>>
          /\ hist' = [hist EXCEPT !.api = @ + 1, !.out = Out("start", "", ErrNoTask)]
     ELSE /\ SetScheduler(DoStart(SchedulerNow, now, writeOk))
          /\ hist' = [hist EXCEPT !.api = @ + 1, !.out = Out("start", "", "")]
  /\ UNCHANGED <<now, cfg, harness, managed, isInitialized, isServiceRunning>>
  /\ UNCHANGED notSched

Start == \E writeOk \in BOOLEAN : StartCall(writeOk)

StopCall(cancel, writeOk) ==
  /\ harness \in {"direct", "lifecycle"}
  /\ hist.api < MaxApi
  /\ cancel = "ok" \/ (harness = "lifecycle" /\ task # NoTask)
  /\ writeOk \/ Stopped(SchedulerNow, cancel)
  /\ IoOk(cancel = "ok", writeOk)
  /\ ioFaults' = IoAfter(cancel = "ok", writeOk)
  /\ SetScheduler(IF Stopped(SchedulerNow, cancel)
                  THEN DoSave(DoStop(SchedulerNow, cancel), writeOk)
                  ELSE DoStop(SchedulerNow, cancel))
  /\ hist' = [hist EXCEPT !.api = @ + 1, !.out = Out("stop", "", "")]
  /\ UNCHANGED <<now, cfg, harness, managed, isInitialized, isServiceRunning>>
  /\ UNCHANGED notSched

Stop == \E cancel \in Cancels, writeOk \in BOOLEAN : StopCall(cancel, writeOk)

UpdateScheduleCall(expr, cancel, writeOk) ==
  LET changes == expr # cronExpression /\ callback # "none" /\ validate(expr) IN
  /\ harness = "lifecycle"
  /\ hist.api < MaxApi
  /\ cancel = "ok" \/ (changes /\ task # NoTask)
  /\ writeOk \/ (changes /\ (Stopped(SchedulerNow, cancel) \/ isRunning(SchedulerNow)))
  /\ IoOk(cancel = "ok", writeOk)
  /\ ioFaults' = IoAfter(cancel = "ok", writeOk)
  /\ IF changes
     THEN /\ SetScheduler(DoUpdateSchedule(SchedulerNow, expr, now, cancel, writeOk))
          /\ hist' = [hist EXCEPT !.api = @ + 1, !.out = Out("updateSchedule", expr, ""),
                                  !.orphans = @ \cup Orphaned(SchedulerNow, cancel)]
     ELSE /\ UNCHANGED <<task, callback, cronExpression, state, file>>
          /\ hist' = [hist EXCEPT
                        !.api = @ + 1,
                        !.out = Out("updateSchedule", expr,
                                    IF expr # cronExpression /\ callback # "none"
                                    THEN ErrInvalidCron ELSE "")]
  /\ UNCHANGED <<now, cfg, harness, managed, isInitialized, isServiceRunning>>
  /\ UNCHANGED notSched

UpdateSchedule ==
  \E expr \in Crons \cup {InvalidCron}, cancel \in Cancels, writeOk \in BOOLEAN :
     UpdateScheduleCall(expr, cancel, writeOk)

ClearMissedExecutions ==
  /\ harness = "direct"
  /\ hist.api < MaxApi
  /\ \E writeOk \in BOOLEAN :
       /\ IoOk(TRUE, writeOk)
       /\ ioFaults' = IoAfter(TRUE, writeOk)
       /\ SetScheduler(DoSave([SchedulerNow EXCEPT !.state.missedExecutions = <<>>], writeOk))
  /\ hist' = [hist EXCEPT !.api = @ + 1, !.out = Out("clearMissedExecutions", "", "")]
  /\ UNCHANGED <<now, cfg, harness, managed, isInitialized, isServiceRunning>>
  /\ UNCHANGED notSched

HandleMissedExecutions ==
  /\ harness = "direct"
  /\ hist.api < MaxApi
  /\ \E readOk \in BOOLEAN, writeOk \in BOOLEAN :
       /\ IoOk(readOk, writeOk)
       /\ ioFaults' = IoAfter(readOk, writeOk)
       /\ LET r == DoHandleMissed(SchedulerNow, now, readOk, writeOk) IN
          /\ writeOk \/ r.ret
          /\ SetScheduler(r.S)
          /\ hist' = [NoteHandled(hist, SchedulerNow, r, now, readOk)
                        EXCEPT !.out = Out("handleMissedExecutions", "", "")]
  /\ UNCHANGED <<now, cfg, harness, managed, isInitialized, isServiceRunning>>
  /\ UNCHANGED notSched

\* Scheduler.initialize(): loadState(), then handleMissedExecutions()
SchedulerInitialize ==
  /\ harness = "direct"
  /\ hist.api < MaxApi
  /\ \E readOk \in BOOLEAN, writeOk \in BOOLEAN :
       /\ IoOk(readOk, writeOk)
       /\ ioFaults' = IoAfter(readOk, writeOk)
       /\ LET S1 == [SchedulerNow EXCEPT !.state = loadState(state, file, readOk)]
              r == DoHandleMissed(S1, now, readOk, writeOk) IN
          IF LoadRaises(file, readOk)
          THEN \* the catch of initialize() throws 'Scheduler initialization failed'
               /\ writeOk
               /\ UNCHANGED <<task, callback, cronExpression, state, file>>
               /\ hist' = [hist EXCEPT
                             !.api = @ + 1,
                             !.hm = [NoHm EXCEPT !.at = now, !.init = TRUE,
                                                 !.initFailed = TRUE,
                                                 !.read = ReadResult(file, readOk)]]
          ELSE /\ writeOk \/ r.ret
               /\ SetScheduler(r.S)
               /\ hist' = [NoteHandled(hist, S1, r, now, readOk)
                             EXCEPT !.out = Out("initialize", "", ""),
                                    !.hm.init = TRUE]
  /\ UNCHANGED <<now, cfg, harness, managed, isInitialized, isServiceRunning>>
  /\ UNCHANGED notSched

\* ---- the timer
\* the function given to cron.schedule: updateLastRun(), callback(), and a
\* catch that logs
LiveTimers ==
  (IF task # NoTask /\ task.timerOn
   THEN {[expr |-> task.expr, cb |-> task.cb, live |-> "task"]} ELSE {})
  \cup {[expr |-> o.expr, cb |-> o.cb, live |-> "orphan"] : o \in hist.orphans}

\* the variant whose handler calls the callback before updateLastRun(), so
\* that a throwing callback skips the update
FireCallbackFirst ==
  /\ hist.lastFired # now
  /\ LET due == {tm \in LiveTimers : CronSlot(tm.expr) = LocalSlot(now)} IN
       /\ due # {}
       /\ hist' = [hist EXCEPT !.lastFired = now, !.fired = due,
                               !.cbCalls = @ + Cardinality(due)]
       /\ state' = IF \A tm \in due : tm.cb = "throws" THEN state
                   ELSE updateLastRun(state, cronExpression, now)
  /\ UNCHANGED <<now, cfg, harness, managed, isInitialized, isServiceRunning, task, callback,
                 cronExpression, file, ioFaults>>
  /\ UNCHANGED notSched

\* a boundary of the clock: every live timer whose expression matches fires;
\* the handler runs updateLastRun(), then the callback, and catches what the
\* callback throws
Fire ==
  /\ hist.lastFired # now
  /\ LET due == {tm \in LiveTimers : CronSlot(tm.expr) = LocalSlot(now)} IN
       /\ due # {}
       /\ hist' = [hist EXCEPT !.lastFired = now, !.fired = due,
                               !.cbCalls = @ + Cardinality(due)]
  /\ state' = updateLastRun(state, cronExpression, now)
  /\ UNCHANGED <<now, cfg, harness, managed, isInitialized, isServiceRunning, task, callback,
                 cronExpression, file, ioFaults>>
  /\ UNCHANGED notSched

\* ---- AutoCommitService lifecycle
InitFailed(why) == Txt(why, "-", 0, {}, "-")

\* initialize(): load the configuration, check git and the repository,
\* scheduler.initialize(), scheduler.handleMissedExecutions()
ServiceInitialize ==
  /\ harness = "service"
  /\ \/ /\ lastError' = InitFailed("Failed to load configuration")
        /\ UNCHANGED <<cfg, isInitialized, task, callback, cronExpression, state, file,
                       ioFaults, hist>>
     \/ /\ lastError' = InitFailed("Git is not available on this system")
        /\ cfg' = [cfg EXCEPT !.loaded = TRUE]
        /\ UNCHANGED <<isInitialized, task, callback, cronExpression, state, file,
                       ioFaults, hist>>
     \/ \E readOk \in BOOLEAN, writeOk \in BOOLEAN :
          /\ IoOk(readOk, writeOk)
          /\ ioFaults' = IoAfter(readOk, writeOk)
          /\ LET S1 == [SchedulerNow EXCEPT !.state = loadState(state, file, readOk)]
                 r1 == DoHandleMissed(S1, now, readOk, writeOk)
                 r2 == DoHandleMissed(r1.S, now, readOk, writeOk)
                 h1 == NoteHandled(hist, S1, r1, now, readOk)
                 h2 == NoteHandled(h1, r1.S, r2, now, readOk) IN
             /\ writeOk \/ r1.ret \/ r2.ret
             /\ SetScheduler(r2.S)
             /\ hist' = [h2 EXCEPT !.bootLastRun = FileLastRun(file, readOk),
                                   !.bootAt = now]
          /\ cfg' = [cfg EXCEPT !.loaded = TRUE]
          /\ isInitialized' = TRUE
          /\ UNCHANGED lastError
  /\ UNCHANGED <<now, harness, managed, isServiceRunning>>
  /\ UNCHANGED <<repo, faults, envOps, wf, totalCommits, lastCommitDate, okCount>>

\* the variant of start() without the already-running return
ServiceStartAgain ==
  /\ harness = "service"
  /\ IF ~isInitialized
     THEN /\ lastError' = InitFailed("Service not initialized. Call initialize() first.")
          /\ UNCHANGED <<isServiceRunning, task, callback, cronExpression, state, file,
                         ioFaults, hist>>
     ELSE IF ~cfg.enabled
     THEN UNCHANGED <<lastError, isServiceRunning, task, callback, cronExpression, state,
                      file, ioFaults, hist>>
     ELSE \E cancel \in Cancels, writeOk \in BOOLEAN :
            /\ cancel = "ok" \/ task # NoTask
            /\ IoOk(cancel = "ok", writeOk)
            /\ ioFaults' = IoAfter(cancel = "ok", writeOk)
            /\ SetScheduler(DoStart(DoSchedule(SchedulerNow, cfg.commitTime, "exec",
                                               now, cancel, writeOk), now, writeOk))
            /\ hist' = [hist EXCEPT !.orphans = @ \cup Orphaned(SchedulerNow, cancel)]
            /\ isServiceRunning' = TRUE
            /\ UNCHANGED lastError
  /\ UNCHANGED <<now, cfg, harness, managed, isInitialized>>
  /\ UNCHANGED <<repo, faults, envOps, wf, totalCommits, lastCommitDate, okCount>>

\* start(): schedule(commitTime, () => this.executeCommit()), scheduler.start()
ServiceStart ==
  /\ harness = "service"
  /\ IF ~isInitialized
     THEN /\ lastError' = InitFailed("Service not initialized. Call initialize() first.")
          /\ UNCHANGED <<isServiceRunning, task, callback, cronExpression, state, file,
                         ioFaults, hist>>
     ELSE IF ~cfg.enabled \/ isServiceRunning
     THEN UNCHANGED <<lastError, isServiceRunning, task, callback, cronExpression, state,
                      file, ioFaults, hist>>
     ELSE \E cancel \in Cancels, writeOk \in BOOLEAN :
            /\ cancel = "ok" \/ task # NoTask
            /\ IoOk(cancel = "ok", writeOk)
            /\ ioFaults' = IoAfter(cancel = "ok", writeOk)
            /\ SetScheduler(DoStart(DoSchedule(SchedulerNow, cfg.commitTime, "exec",
                                               now, cancel, writeOk), now, writeOk))
            /\ hist' = [hist EXCEPT !.orphans = @ \cup Orphaned(SchedulerNow, cancel)]
            /\ isServiceRunning' = TRUE
            /\ UNCHANGED lastError
  /\ UNCHANGED <<now, cfg, harness, managed, isInitialized>>
  /\ UNCHANGED <<repo, faults, envOps, wf, totalCommits, lastCommitDate, okCount>>

\* stop()
\* stop(): returns at once when the service is not running
ServiceStop ==
  /\ harness = "service"
  /\ IF ~isServiceRunning
     THEN UNCHANGED <<isServiceRunning, task, callback, cronExpression, state, file,
                      ioFaults>>
     ELSE /\ \E cancel \in Cancels, writeOk \in BOOLEAN :
               /\ cancel = "ok" \/ task # NoTask
               /\ writeOk \/ Stopped(SchedulerNow, cancel)
               /\ IoOk(cancel = "ok", writeOk)
               /\ ioFaults' = IoAfter(cancel = "ok", writeOk)
               /\ SetScheduler(IF Stopped(SchedulerNow, cancel)
                               THEN DoSave(DoStop(SchedulerNow, cancel), writeOk)
                               ELSE DoStop(SchedulerNow, cancel))
          /\ isServiceRunning' = FALSE
  /\ UNCHANGED <<now, cfg, harness, managed, isInitialized, hist>>
  /\ UNCHANGED notSched

\* ServiceManager.initialize(): returns at once when this.service is set;
\* otherwise this.service = new AutoCommitService(...), then
\* service.initialize() and service.start() inside a try whose catch only
\* logs
ManagerInitialize ==
  /\ harness = "service"
  /\ IF managed
     THEN UNCHANGED <<managed, cfg, lastError, isInitialized, isServiceRunning, task,
                      callback, cronExpression, state, file, ioFaults, hist>>
     ELSE /\ ~isInitialized /\ ~isServiceRunning /\ task = NoTask /\ callback = "none"
          /\ managed' = TRUE
          /\ \/ /\ lastError' = InitFailed("Failed to load configuration")
                /\ UNCHANGED <<cfg, isInitialized, isServiceRunning, task, callback,
                               cronExpression, state, file, ioFaults, hist>>
             \/ /\ lastError' = InitFailed("Git is not available on this system")
                /\ cfg' = [cfg EXCEPT !.loaded = TRUE]
                /\ UNCHANGED <<isInitialized, isServiceRunning, task, callback,
                               cronExpression, state, file, ioFaults, hist>>
             \/ \E readOk \in BOOLEAN, writeOk \in BOOLEAN :
                  /\ IoOk(readOk, writeOk)
                  /\ ioFaults' = IoAfter(readOk, writeOk)
                  /\ LET S1 == [SchedulerNow EXCEPT !.state = loadState(state, file, readOk)]
                         r1 == DoHandleMissed(S1, now, readOk, writeOk)
                         r2 == DoHandleMissed(r1.S, now, readOk, writeOk)
                         h1 == NoteHandled(hist, S1, r1, now, readOk)
                         h2 == NoteHandled(h1, r1.S, r2, now, readOk)
                         S3 == IF cfg.enabled
                               THEN DoStart(DoSchedule(r2.S, cfg.commitTime, "exec", now,
                                                       "ok", writeOk), now, writeOk)
                               ELSE r2.S IN
                     /\ writeOk \/ r1.ret \/ r2.ret \/ cfg.enabled
                     /\ SetScheduler(S3)
                     /\ hist' = [h2 EXCEPT !.bootLastRun = FileLastRun(file, readOk),
                                           !.bootAt = now]
                  /\ cfg' = [cfg EXCEPT !.loaded = TRUE]
                  /\ isInitialized' = TRUE
                  /\ isServiceRunning' = cfg.enabled
                  /\ UNCHANGED lastError
  /\ UNCHANGED <<now, harness>>
  /\ UNCHANGED <<repo, faults, envOps, wf, totalCommits, lastCommitDate, okCount>>

\* the process ends (with or without stop()) and a new one is constructed;
\* only the state file survives
Restart ==
  /\ ioFaults + hist.boots < MaxIoFaults
  /\ isInitialized' = FALSE
  /\ isServiceRunning' = FALSE
  /\ task' = NoTask
  /\ callback' = "none"
  /\ cronExpression' = ""
  /\ state' = DefaultState
  /\ hist' = [HistInit EXCEPT !.boots = hist.boots + 1, !.api = hist.api]
  /\ cfg' = [cfg EXCEPT !.loaded = FALSE]
  /\ totalCommits' = 0
  /\ lastCommitDate' = NoTime
  /\ lastError' = NoText
  /\ managed' = FALSE
  /\ UNCHANGED <<now, repo, faults, envOps, wf, okCount, harness, file, ioFaults>>

\* the persisted files earlier processes can have left behind
PastRuns(n) == [i \in 1..n |-> toISOString((i - n - 1) * DayLen - 1)]

FileInit ==
  {NoFile, [kind |-> "corrupt", data |-> DefaultState]} \cup
  { f \in { [kind |-> "json",
             data |-> [lastRun |-> lr, nextRun |-> NoIso, isActive |-> act,
                       cronExpression |-> "0 0 * * *",
                       missedExecutions |-> PastRuns(n)]] :
              lr \in {NoIso, toISOString(-3), toISOString(-1)},
              act \in BOOLEAN, n \in {0, MaxMissed - 1, MaxMissed} } :
      /\ f.data.isActive => f.data.missedExecutions = <<>>
      /\ Len(f.data.missedExecutions) = MaxMissed - 1 => f.data.lastRun = toISOString(-3) }

InitSched ==
  /\ harness \in {"service", "direct", "lifecycle"}
  /\ SchedulerIdle
  /\ file \in FileInit
  /\ (harness = "lifecycle" => file = NoFile)
  /\ now = 0
  /\ repo = [isRepo |-> TRUE, conflict |-> FALSE, merging |-> FALSE,
             rebaseMerge |-> FALSE, rebaseApply |-> FALSE, detached |-> FALSE,
             changes |-> 0, staged |-> 0, head |-> 0]
  /\ faults = 0
  /\ envOps = 0
  /\ cfg \in [loaded : {FALSE}, retryAttempts : {1}, loggerHasWarn : {FALSE},
              enabled : BOOLEAN, commitTime : {"0 0 * * *"}]
  /\ (harness # "service" => cfg.enabled)
  /\ wf = [w \in Procs |-> IdleWf]
  /\ totalCommits = 0
  /\ lastCommitDate = NoTime
  /\ lastError = NoText
  /\ okCount = 0

NextSched ==
  \/ Schedule
  \/ Start
  \/ Stop
  \/ UpdateSchedule
  \/ ClearMissedExecutions
  \/ HandleMissedExecutions
  \/ SchedulerInitialize
  \/ Fire
  \/ ServiceInitialize
  \/ ServiceStart
  \/ ServiceStop
  \/ ManagerInitialize
  \/ Restart
  \/ Tick

SpecSched == InitSched /\ [][NextSched]_vars

\* One call at a time: executeCommit (manual trigger or scheduled fire) or a
\* direct createCommitWithRetry, on a repository that changes under it.
Next ==
  \/ \E w \in Callers : ExecuteCommitBegin(w)
  \/ \E w \in Callers : CreateCommitWithRetryCall(w)
  \/ \E w \in Callers : WorkflowStep(w)
  \/ Tick
  \/ EnvEditFiles
  \/ EnvSetMarker

Spec == Init /\ [][Next]_vars

\* ------------------------------------ scheduled fire and manual trigger
\* The service after initialize() and start() on a safe repository; call
\* slot 1 is the timer's callback () => this.executeCommit(), slot 2 the
\* POST /api/auto-commit/trigger route.
RunningScheduler ==
  DoStart(DoSchedule([task |-> NoTask, callback |-> "none", cronExpression |-> "",
                      state |-> DefaultState, file |-> NoFile],
                     "0 0 * * *", "exec", 0, "ok", TRUE), 0, TRUE)

InitRace ==
  /\ harness = "service"
  /\ now = 0
  /\ repo \in {r \in RepoInit : getRepositoryState(r, "none") \in {"clean", "dirty"}}
  /\ faults = 0
  /\ envOps = 0
  /\ cfg = [loaded |-> TRUE, retryAttempts |-> 1, loggerHasWarn |-> FALSE,
            enabled |-> TRUE, commitTime |-> "0 0 * * *"]
  /\ wf = [w \in Procs |-> IdleWf]
  /\ totalCommits = 0
  /\ lastCommitDate = NoTime
  /\ lastError = NoText
  /\ okCount = 0
  /\ managed = TRUE
  /\ isInitialized = TRUE
  /\ isServiceRunning = TRUE
  /\ task = RunningScheduler.task
  /\ callback = RunningScheduler.callback
  /\ cronExpression = RunningScheduler.cronExpression
  /\ state = RunningScheduler.state
  /\ file = RunningScheduler.file
  /\ ioFaults = 0
  /\ hist = HistInit

\* the cron callback of start(): () => this.executeCommit()
ScheduledFire ==
  /\ task # NoTask /\ task.timerOn
  /\ ExecuteCommitBegin(1)

\* the variant of the route that refuses a trigger while a workflow runs
TriggerManualCommitLocked ==
  /\ isInitialized /\ isServiceRunning
  /\ AllQuiet
  /\ ExecuteCommitBegin(2)

\* POST /api/auto-commit/trigger: 503 unless the service exists and runs,
\* then service.triggerManualCommit(), which is executeCommit()
TriggerManualCommit ==
  /\ isInitialized /\ isServiceRunning
  /\ ExecuteCommitBegin(2)

\* the status and JSON body the route builds from the CommitResult; body
\* lists the fields that are present (an undefined value is left out)
TriggerResponse(res) ==
  IF res.kind # "returned"
  THEN [status |-> 500, body |-> {"error", "message"}, success |-> FALSE,
        error |-> InitFailed("Failed to trigger manual commit"), message |-> res.error,
        filesChanged |-> 0, commitHash |-> 0]
  ELSE IF res.success
  THEN [status |-> 200,
        body |-> {"success", "result", "message", "filesChanged", "timestamp"}
                 \cup (IF res.commitHash # 0 THEN {"commitHash"} ELSE {}),
        success |-> TRUE, error |-> NoText, message |-> res.message,
        filesChanged |-> res.filesChanged, commitHash |-> res.commitHash]
  ELSE [status |-> 400, body |-> {"success", "error", "message", "filesChanged"},
        success |-> FALSE,
        error |-> IF res.error = NoText THEN InitFailed("Commit failed") ELSE res.error,
        message |-> res.message, filesChanged |-> res.filesChanged, commitHash |-> 0]

NextRace ==
  \/ ScheduledFire
  \/ TriggerManualCommit
  \/ \E w \in Procs : WorkflowStep(w)
  \/ EnvEditFiles

SpecRace == InitRace /\ [][NextRace]_vars

\* ------------------------------------------------- escapeCommitMessage
\* A message is a sequence of characters; the ones the code or the shell
\* treats specially are named, "a" stands for any other character.
Chars == {"a", "dot", "space", "newline", "quote", "backtick", "dollar", "backslash"}

MaxMsgLen == 3

Messages == UNION {[1..n -> Chars] : n \in 0..MaxMsgLen}

\* String.prototype.replace(/c/g, r)
RECURSIVE ReplaceAll(_, _, _)
ReplaceAll(s, c, r) ==
  IF s = <<>> THEN <<>>
  ELSE (IF Head(s) = c THEN r ELSE <<Head(s)>>) \o ReplaceAll(Tail(s), c, r)

\* String.prototype.trim()
RECURSIVE Trim(_)
Trim(s) ==
  IF s = <<>> THEN <<>>
  ELSE IF Head(s) \in {"space", "newline"} THEN Trim(Tail(s))
  ELSE IF s[Len(s)] \in {"space", "newline"} THEN Trim(SubSeq(s, 1, Len(s) - 1))
  ELSE s

escapeCommitMessage(message) ==
  Trim(ReplaceAll(ReplaceAll(ReplaceAll(ReplaceAll(message,
         "quote", <<"backslash", "quote">>),
         "backtick", <<"backslash", "backtick">>),
         "dollar", <<"backslash", "dollar">>),
         "newline", <<"space">>))

\* How /bin/sh, which child_process.exec runs the command line with, reads
\* the text between the double quotes from position i on: a backslash takes
\* the special meaning from a following $, `, " or backslash; TRUE when it
\* meets no newline and no ", ` or $ that is left unescaped.
RECURSIVE ShellInertFrom(_, _)
ShellInertFrom(s, i) ==
  IF i > Len(s) THEN TRUE
  ELSE IF s[i] = "backslash" /\ i < Len(s)
          /\ s[i + 1] \in {"quote", "backtick", "dollar", "backslash"}
       THEN ShellInertFrom(s, i + 2)
  ELSE IF s[i] \in {"quote", "backtick", "dollar", "newline"} THEN FALSE
  ELSE ShellInertFrom(s, i + 1)

\* ---------------------------------------------- generateCommitMessage
MaxLength == 72

MaxTemplateLen == 74

\* files.length values with one, two and three digits
FileCounts == {1, 10, 100}

\* files.length.toString()
CountText(n) == [i \in 1..(IF n < 10 THEN 1 ELSE IF n < 100 THEN 2 ELSE 3) |-> "a"]

\* custom templates: literal text with a {count} placeholder in front, at the
\* end, or nowhere
Templates ==
  { pre \o [i \in 1..n |-> "a"] \o post :
      n \in 1..MaxTemplateLen, pre \in {<<>>, <<"{count}">>}, post \in {<<>>, <<"{count}">>} }

\* the placeholder loop of applyMessageTemplate
Expand(template, count) == ReplaceAll(template, "{count}", CountText(count))

\* the variant that keeps maxLength characters in front of the ellipsis
ApplyMessageTemplateLong(template, count) ==
  LET message == Expand(template, count) IN
  IF Len(message) > MaxLength
  THEN SubSeq(message, 1, MaxLength) \o <<"dot", "dot", "dot">>
  ELSE message

applyMessageTemplate(template, count) ==
  LET message == Expand(template, count) IN
  IF Len(message) > MaxLength
  THEN SubSeq(message, 1, MaxLength - 3) \o <<"dot", "dot", "dot">>
  ELSE message

\* executeCommit: generateCommitMessage(changedFiles, template) with a custom
\* template, on its way to createCommit
GenerateCommitMessage(w) ==
  /\ wf[w].pc = "idle"
  /\ \E t \in Templates, n \in FileCounts :
       wf' = [wf EXCEPT ![w] = [IdleWf EXCEPT !.kind = "exec", !.pc = "cc_message",
                                              !.files = n, !.template = t,
                                              !.message = applyMessageTemplate(t, n)]]
  /\ UNCHANGED <<now, repo, faults, envOps, cfg, svcVars, schedVars>>

\* a caller hands a message to createCommit
CreateCommitMessageCall(w) ==
  /\ wf[w].pc = "idle"
  /\ \E m \in Messages :
       wf' = [wf EXCEPT ![w] = [IdleWf EXCEPT !.kind = "direct", !.pc = "cc_message",
                                              !.message = m, !.blank = (Trim(m) = <<>>)]]
  /\ UNCHANGED <<now, repo, faults, envOps, cfg, svcVars, schedVars>>

\* createCommit from the message check to the `commit -m "..."` command line
CreateCommitEscape(w) ==
  /\ wf[w].pc = "cc_message"
  /\ IF wf[w].blank
     THEN wf' = [wf EXCEPT ![w].pc = "done", ![w].res = ResThrew(ErrEmptyMessage)]
     ELSE wf' = [wf EXCEPT ![w].pc = "done",
                           ![w].arg = escapeCommitMessage(wf[w].message)]
  /\ UNCHANGED <<now, repo, faults, envOps, cfg, svcVars, schedVars>>

InitEscape ==
  /\ Init
  /\ harness = "direct"
  /\ getRepositoryState(repo, "none") = "dirty"
  /\ repo.changes = 1

NextEscape ==
  \/ \E w \in Callers : GenerateCommitMessage(w)
  \/ \E w \in Callers : CreateCommitMessageCall(w)
  \/ \E w \in Callers : CreateCommitEscape(w)

SpecEscape == InitEscape /\ [][NextEscape]_vars

TypeOK ==
  /\ now \in 0..MaxTime
  /\ faults + envOps \in 0..MaxEnv
  /\ \A w \in Procs : wf[w].attempts <= MaxAttempts

\* ======================================================= executeCommit
Done(w) == wf[w].pc = "done"
ExecDone(w) == Done(w) /\ wf[w].kind = "exec"

\* C1: when executeCommit's own classification found the repository
\* merging, rebasing, detached, in conflict or unknown, the call stages
\* nothing, commits nothing and returns a failure whose error text names that
\* state, with the skip reason (naming the state) in lastError.
C1_UnsafeSkipNamesState ==
  \A w \in Procs :
    (ExecDone(w) /\ wf[w].unsafeSeen # "-") =>
       /\ wf[w].stages = 0 /\ wf[w].commits = 0 /\ wf[w].attempts = 0
       /\ wf[w].res.kind = "returned" /\ ~wf[w].res.success
       /\ wf[w].res.error = ErrRepositoryState(wf[w].unsafeSeen)
       /\ lastError = WarningMessage(wf[w].unsafeSeen)

\* C2: executeCommit never rejects; every failure of change detection,
\* classification, file listing and the retrying commit comes back as a
\* returned result with success = false and an error text.
C2_ExecuteCommitNeverThrows ==
  \A w \in Procs :
    ExecDone(w) =>
       /\ wf[w].res.kind = "returned"
       /\ (~wf[w].res.success => wf[w].res.error # NoText)

C2_Witness ==
  \E w \in Procs :
    /\ ExecDone(w) /\ ~wf[w].res.success
    /\ wf[w].attempts >= 1 /\ wf[w].genFails >= 1
    /\ wf[w].res.error = ErrWarnNotFunction

\* C3: with no changes in the working tree executeCommit returns success
\* with filesChanged = 0 and no commit id, attempts neither staging nor a
\* commit, and leaves totalCommits and lastCommit as they were.
C3_NoChangesIsNoOp ==
  \A w \in Procs :
    (ExecDone(w) /\ wf[w].noChanges) =>
       /\ wf[w].res.kind = "returned" /\ wf[w].res.success
       /\ wf[w].res.filesChanged = 0 /\ wf[w].res.commitHash = 0
       /\ wf[w].stages = 0 /\ wf[w].commits = 0 /\ wf[w].attempts = 0
       /\ totalCommits = wf[w].snapTotal
       /\ lastCommitDate = wf[w].snapLast

C3_Witness ==
  \E w \in Procs :
    /\ ExecDone(w) /\ wf[w].noChanges
    /\ wf[w].snapTotal = 1 /\ wf[w].snapLast # NoTime

\* C4: a call that created a commit added exactly one to totalCommits, set
\* lastCommit to its own start time and cleared lastError; totalCommits is
\* the number of calls that returned success with a commit id.
C4_CommitCounted ==
  /\ totalCommits = okCount
  /\ \A w \in Procs :
       (ExecDone(w) /\ wf[w].res.success /\ wf[w].res.commitHash # 0) =>
          /\ totalCommits = wf[w].snapTotal + 1
          /\ lastCommitDate = wf[w].start
          /\ lastError = NoText

C4_Witness ==
  \E w \in Procs :
    /\ ExecDone(w) /\ wf[w].res.success /\ wf[w].res.commitHash # 0
    /\ totalCommits = 2 /\ wf[w].start < now

\* C5: when executeCommit returns a failure, lastError holds the failure
\* text of that result (its error text; for the unsafe-state skip the skip
\* message the result carries as its message) and totalCommits and
\* lastCommit are as they were.
C5_FailureRecorded ==
  \A w \in Procs :
    (ExecDone(w) /\ wf[w].res.kind = "returned" /\ ~wf[w].res.success) =>
       /\ lastError # NoText
       /\ IF wf[w].res.error.tag = ErrRepositoryState("-").tag
          THEN lastError = wf[w].res.message
          ELSE lastError = wf[w].res.error
       /\ totalCommits = wf[w].snapTotal
       /\ lastCommitDate = wf[w].snapLast

C5_Witness ==
  \E w \in Procs :
    /\ ExecDone(w) /\ ~wf[w].res.success
    /\ wf[w].snapTotal = 1 /\ wf[w].snapLast # NoTime
    /\ totalCommits = 1 /\ lastCommitDate = wf[w].snapLast
    /\ lastError = wf[w].res.error

\* C6: an attempt that fails a commit precondition (unsafe state, no
\* changes, empty message) is the last one: no attempt and no delay follows
\* it, whatever maxRetries is, and the call fails with that very error.
C6_PreconditionFailureNotRetried ==
  \A w \in Procs :
    wf[w].nrAt # 0 =>
       /\ Done(w)
       /\ wf[w].attempts = wf[w].nrAt
       /\ wf[w].delays = wf[w].nrAt - 1
       /\ ~wf[w].res.success
       /\ wf[w].res.error = wf[w].nrErr

C6_Witness ==
  \E w \in Procs :
    /\ Done(w) /\ wf[w].kind = "direct" /\ wf[w].max >= 2
    /\ wf[w].nrAt = 1 /\ wf[w].nrErr = ErrNoChanges
    /\ wf[w].attempts = 1 /\ wf[w].delays = 0

\* C7: a call whose attempts keep failing with generic errors makes exactly
\* maxRetries attempts with maxRetries - 1 delays and then fails with the
\* exhausted-retries error wrapping the last error.
C7_TransientFailureRetried ==
  \A w \in Procs :
    (Done(w) /\ wf[w].kind = "direct" /\ wf[w].res.kind = "threw"
       /\ wf[w].genFails >= 1 /\ wf[w].nrAt = 0) =>
       /\ wf[w].attempts = wf[w].max
       /\ wf[w].delays = wf[w].max - 1
       /\ wf[w].res.error = ErrExhausted(wf[w].max, wf[w].genErr)

\* ============================================================ Scheduler
\* C8: once the service has been initialized and started by a process that
\* found a persisted lastRun of an earlier local calendar day, the commit
\* workflow has been executed once as missed-run recovery.
C8_OfflineRunRecovered ==
  (/\ harness = "service" /\ isInitialized /\ isServiceRunning
   /\ hist.bootLastRun # NoIso
   /\ LocalDay(hist.bootAt) > LocalDay(ParseISO(hist.bootLastRun)))
  => hist.recoveries = 1

LastHm == hist.hm
HmDue(lastRun) ==
  /\ lastRun # NoIso
  /\ LastHm.cb # "none"
  /\ LocalDay(LastHm.at) > LocalDay(ParseISO(lastRun))
HmAppended == KeepLast(Append(LastHm.loaded, toISOString(LastHm.at)))

C10_MissedHistoryBounded ==
  /\ Len(state.missedExecutions) <= MaxMissed
  /\ Len(file.data.missedExecutions) <= MaxMissed
  /\ (LastHm.calls = 1 /\ Len(LastHm.loaded) = MaxMissed) =>
        LastHm.after = Append(Tail(LastHm.loaded), toISOString(LastHm.at))

C10_Witness ==
  /\ LastHm.calls = 1 /\ LastHm.ret
  /\ Len(LastHm.loaded) = MaxMissed
  /\ Len(state.missedExecutions) = MaxMissed
  /\ state.missedExecutions[1] = LastHm.loaded[2]
  /\ file.data.missedExecutions = state.missedExecutions

\* C11: a callback that throws during handleMissedExecutions() makes the
\* promise returned by handleMissedExecutions() reject with that error.
C11_CallbackThrowPropagates ==
  (LastHm.called /\ LastHm.calls = 1 /\ LastHm.cb = "throws") => LastHm.rejected

\* the entries of a history
Entries(q) == {q[i] : i \in 1..Len(q)}

\* the last handleMissedExecutions() call invoked a callback that threw
HmThrew == LastHm.called /\ LastHm.calls = 1 /\ LastHm.cb = "throws"

\* C12: when the callback threw during handleMissedExecutions(), the entry
\* appended for that attempt never reaches the persisted state file, neither
\* during the call nor through a later save of the in-memory state.
C12_ThrownAttemptNotPersisted ==
  (HmThrew /\ file.kind = "json")
    => toISOString(LastHm.at) \notin Entries(file.data.missedExecutions)

\* C13: at most one recovery execution of the callback per process start,
\* however many handleMissedExecutions() calls are made and whether or not
\* the save after the first recovery succeeds.
C13_OneRecoveryPerStart == hist.recoveries <= 1

\* the steps that run calculateNextRun() with an installed expression
ComputesNextRun ==
  \/ \E expr \in Crons, cb \in {"ok", "throws"}, cancel \in Cancels, writeOk \in BOOLEAN :
        ScheduleCall(expr, cb, cancel, writeOk)
  \/ Start /\ task # NoTask /\ ~isRunning(SchedulerNow)
  \/ UpdateSchedule /\ cronExpression' # cronExpression
  \/ Fire

\* C14: the computed nextRun is today (local calendar day) at the hour and
\* minute of the expression when that instant is strictly later than now,
\* otherwise the same time on the next day; it is always later than now.
C14_NextRunTodayOrTomorrow ==
  [][ComputesNextRun =>
       LET cand == CHOOSE c \in (now - DayLen)..(now + DayLen) :
                     LocalDay(c) = LocalDay(now) /\ LocalSlot(c) = CronSlot(cronExpression')
           next == ParseISO(state'.nextRun)
       IN /\ next = (IF cand > now THEN cand ELSE cand + DayLen)
          /\ next > now]_vars

\* a nextRun later on the same local day has been computed
C14_Witness ==
  /\ task # NoTask
  /\ state.nextRun # NoIso
  /\ ParseISO(state.nextRun) > now
  /\ LocalDay(ParseISO(state.nextRun)) = LocalDay(now)
  /\ LocalSlot(ParseISO(state.nextRun)) = CronSlot(cronExpression)

\* the last call was a schedule() that returned: no start() since
ScheduledNotStarted == hist.out.op = "schedule" /\ hist.out.err = ""

\* C15: between a schedule() and the next start() isRunning() is false and
\* the timer of the installed task does not invoke the callback.
C15_ScheduleDoesNotStartFiring ==
  [][ScheduledNotStarted =>
       /\ ~isRunning(SchedulerNow)
       /\ ~(Fire /\ \E tm \in hist'.fired : tm.live = "task")]_vars

\* C16: at most one cron task is live at any time, and no timer of a task
\* that schedule() replaced fires after the replacement.
C16_AtMostOneLiveTask ==
  /\ Cardinality(LiveTimers) <= 1
  /\ \A tm \in hist.fired : tm.live = "task"

\* C17: schedule() with a malformed expression throws the scheduler error
\* 'Invalid cron expression' and leaves the installed timer, the callback,
\* the expression, nextRun and the running state as they were.
C17_InvalidCronRejected ==
  [][\A cb \in {"ok", "throws"}, cancel \in Cancels, writeOk \in BOOLEAN :
       ScheduleCall(InvalidCron, cb, cancel, writeOk) =>
         /\ harness = "lifecycle" => hist'.out.err = ErrInvalidCron
         /\ UNCHANGED <<task, callback, cronExpression, state, file>>
         /\ hist'.orphans = hist.orphans]_vars

\* a running scheduler has rejected a malformed expression
C17_Witness ==
  /\ hist.out.op = "schedule" /\ hist.out.arg = InvalidCron
  /\ hist.out.err = ErrInvalidCron
  /\ hist.out.wasRunning /\ isRunning(SchedulerNow)
  /\ cronExpression \in Crons

\* C18: start() throws 'No task scheduled' when no expression has been
\* installed, and start() on a running scheduler changes nothing.
C18_StartNeedsTaskAndIsIdempotent ==
  [][\A writeOk \in BOOLEAN :
       StartCall(writeOk) =>
         /\ cronExpression = "" =>
               /\ harness = "lifecycle" => hist'.out.err = ErrNoTask
               /\ UNCHANGED <<task, callback, cronExpression, state, file>>
         /\ isRunning(SchedulerNow) =>
               /\ hist'.out.err = ""
               /\ UNCHANGED <<task, callback, cronExpression, state, file, ioFaults>>]_vars

\* start() was called on a running scheduler
C18_Witness ==
  /\ hist.out.op = "start" /\ hist.out.err = "" /\ hist.out.wasRunning
  /\ isRunning(SchedulerNow) /\ task.timerOn

\* C19: after stop() returns, in any state and also when cancelling the
\* timer failed internally, no timer of this.task is on, the active flag is
\* cleared and isRunning() is false.
C19_StopAlwaysStops ==
  [][\A cancel \in Cancels, writeOk \in BOOLEAN :
       StopCall(cancel, writeOk) =>
         /\ ~task'.timerOn
         /\ ~state'.isActive
         /\ ~(task' # NoTask /\ state'.isActive)]_vars

\* C20 as stated: updateSchedule() with the installed expression is a no-op;
\* with another (well-formed) expression it installs that expression and
\* keeps the running status.
C20_AsStated ==
  [][\A expr \in Crons, cancel \in Cancels, writeOk \in BOOLEAN :
       UpdateScheduleCall(expr, cancel, writeOk) =>
         IF expr = cronExpression
         THEN UNCHANGED <<task, callback, cronExpression, state, file>>
         ELSE /\ cronExpression' = expr /\ task'.expr = expr
              /\ (task' # NoTask /\ state'.isActive) = isRunning(SchedulerNow)]_vars

\* C20: updateSchedule() with the installed expression is a no-op, and so
\* is updateSchedule() on a scheduler that schedule() never gave a callback;
\* otherwise a well-formed new expression is installed and the running
\* status is kept.
C20_UpdateSchedule ==
  [][\A expr \in Crons, cancel \in Cancels, writeOk \in BOOLEAN :
       UpdateScheduleCall(expr, cancel, writeOk) =>
         IF expr = cronExpression \/ callback = "none"
         THEN UNCHANGED <<task, callback, cronExpression, state, file>>
         ELSE /\ cronExpression' = expr /\ task'.expr = expr
              /\ (task' # NoTask /\ state'.isActive) = isRunning(SchedulerNow)]_vars

\* a running scheduler was given another expression and is running with it
C20_Witness ==
  /\ hist.out.op = "updateSchedule" /\ hist.out.err = ""
  /\ hist.out.wasExpr \in Crons /\ hist.out.arg \in Crons \ {hist.out.wasExpr}
  /\ hist.out.wasRunning
  /\ cronExpression = hist.out.arg /\ task.expr = hist.out.arg
  /\ isRunning(SchedulerNow)

\* the steps of the mutating operations: a schedule() that installs, a
\* start() or stop() that changes the task, a timer fire, a missed-run
\* recovery, clearMissedExecutions()
Mutating ==
  \/ \E expr \in Crons, cb \in {"ok", "throws"}, cancel \in Cancels, writeOk \in BOOLEAN :
        ScheduleCall(expr, cb, cancel, writeOk)
  \/ Start /\ task # NoTask /\ ~isRunning(SchedulerNow)
  \/ Stop /\ task # NoTask
  \/ Fire
  \/ HandleMissedExecutions /\ hist'.hm.ret
  \/ ClearMissedExecutions

\* C21: once a mutating operation has completed without a failed write or
\* timer operation, the state file holds the in-memory state.
C21_PersistedAfterEveryMutation ==
  [][(Mutating /\ ioFaults' = ioFaults) =>
       (file'.kind = "json" /\ file'.data = state')]_vars

C25_ClassifyOrder ==
  LET st == getRepositoryState(repo, "none")
      rebasing == repo.rebaseMerge \/ repo.rebaseApply
  IN /\ (st = "unknown") = ~repo.isRepo
     /\ (st = "conflict") = (repo.isRepo /\ repo.conflict)
     /\ (st = "merging") = (repo.isRepo /\ ~repo.conflict /\ repo.merging)
     /\ (st = "rebasing") = (repo.isRepo /\ ~repo.conflict /\ ~repo.merging /\ rebasing)
     /\ (st = "detached") =
          (repo.isRepo /\ ~repo.conflict /\ ~repo.merging /\ ~rebasing /\ repo.detached)
     /\ (st = "dirty") =
          (repo.isRepo /\ ~repo.conflict /\ ~repo.merging /\ ~rebasing /\ ~repo.detached
           /\ repo.changes > 0)
     /\ st \in RepoStates
     /\ isRepositoryClean(repo, "none") = (st \in {"clean", "dirty"})

\* executeCommit classified a repository with a reported conflict and a
\* MERGE_HEAD as conflict
C25_Witness ==
  \E w \in Procs :
    /\ wf[w].unsafeSeen = "conflict"
    /\ repo.conflict /\ repo.merging

\* C26: classification never throws, and whenever one of its checks fails
\* unexpectedly the state is unknown, so the workflow does not go on to
\* commit.
C26_FailedCheckYieldsUnknown ==
  [][\A w \in Procs : \A f \in ClassFaults \ {"none"} :
       ExecuteCommitCheckStateWith(w, f) =>
         /\ wf'[w].pc = "repoInfo"
         /\ wf'[w].unsafeSeen = "unknown"]_vars

\* C27: createCommit checks safety, then changes, then the message: the
\* safety check fails with the not-clean error whatever the changes and the
\* message are, a repository without changes fails with the no-changes error
\* even for a blank message, a blank message fails with the empty-message
\* error only when there are changes, and none of these steps stages or
\* commits anything.
C27_PreconditionOrder ==
  [][\A w \in Procs :
       LET x == wf[w]
           y == wf'[w]
       IN (x.pc \in {"cc_clean", "cc_changes"} /\ y # x) =>
            /\ repo' = repo /\ y.stages = x.stages /\ y.commits = x.commits
            /\ x.pc = "cc_clean" =>
                 \/ y.pc = "cc_changes" /\ y.nrErr = NoText
                 \/ /\ y.pc = "done" /\ y.nrErr = ErrNotClean /\ y.nrAt = x.attempt
                    /\ y.res.error = ErrNotClean
            /\ (x.pc = "cc_changes" /\ y.nrErr # NoText) =>
                 /\ y.pc = "done" /\ y.res.error = y.nrErr
                 /\ y.nrErr = IF repo.changes = 0 THEN ErrNoChanges ELSE ErrEmptyMessage
                 /\ repo.changes > 0 => x.blank
            /\ (x.pc = "cc_changes" /\ y.pc = "cc_add") => (repo.changes > 0 /\ ~x.blank)]_vars

\* a call with a blank message on an unsafe repository without changes was
\* refused as not clean, and nothing was staged or committed
C27_Witness ==
  /\ repo.changes = 0 /\ repo.staged = 0 /\ repo.head = 0
  /\ ~IsSafeState(getRepositoryState(repo, "none"))
  /\ \E w \in Procs :
       /\ wf[w].pc = "done" /\ wf[w].kind = "direct" /\ wf[w].blank
       /\ wf[w].nrErr = ErrNotClean /\ wf[w].res.error = ErrNotClean
       /\ wf[w].stages = 0 /\ wf[w].commits = 0

\* C28: an attempt that fails because nothing was staged ends the retry
\* loop at once: the call is rejected with the nothing-staged error, without
\* a delay and without a further attempt.
C28_NothingStagedNotRetried ==
  [][\A w \in Procs :
       LET x == wf[w]
           y == wf'[w]
       IN (x.pc = "cc_staged" /\ y.genFails = x.genFails + 1 /\ y.genErr = ErrNothingStaged) =>
            /\ y.pc = "done"
            /\ y.res.error = ErrNothingStaged
            /\ y.attempts = x.attempts /\ y.delays = x.delays]_vars

\* C29: once the commit exists, counting its files cannot fail the attempt:
\* whether or not the enumeration succeeds, the call returns the commit id
\* and is neither reported as failed nor retried.
C29_FileCountBestEffort ==
  [][\A w \in Procs :
       LET x == wf[w]
           y == wf'[w]
       IN (x.pc = "cc_files" /\ y # x) =>
            /\ y.pc = "done"
            /\ y.res.success /\ y.res.commitHash = x.hash
            /\ y.genFails = x.genFails /\ y.attempts = x.attempts]_vars

\* C30: whatever the message, backslashes included, the text createCommit
\* puts between the double quotes of the commit command has no newline and
\* no double quote, backtick or dollar sign that the shell reads as
\* unescaped.
C30_EscapedMessageIsInert ==
  \A w \in Procs : ShellInertFrom(wf[w].arg, 1)

\* C31: start() before a successful initialize() fails with 'Service not
\* initialized' and leaves the service stopped; a running service is always
\* an initialized one; start() while running and stop() while stopped change
\* nothing and raise nothing.
C31_ServiceLifecycle ==
  [][/\ (ServiceStart /\ ~isInitialized) =>
          /\ lastError' = InitFailed("Service not initialized. Call initialize() first.")
          /\ ~isServiceRunning'
     /\ (ServiceStart /\ isServiceRunning) => UNCHANGED vars
     /\ (ServiceStop /\ ~isServiceRunning) => UNCHANGED vars
     /\ isServiceRunning' => isInitialized']_vars

\* start() was refused before initialize(), and the service was then
\* initialized and started
C31_Witness ==
  /\ lastError = InitFailed("Service not initialized. Call initialize() first.")
  /\ isInitialized /\ isServiceRunning /\ isRunning(SchedulerNow)

\* C32: a message generated from a template is never longer than 72
\* characters: one that would be longer is cut to its first 69 characters
\* followed by '...', exactly 72 in all, and one of at most 72 characters is
\* returned as it is.
C32_TemplateMessageAtMost72 ==
  \A w \in Procs :
    wf[w].template # <<>> =>
      LET raw == Expand(wf[w].template, wf[w].files)
          m == wf[w].message
      IN /\ Len(m) <= 72
         /\ Len(raw) > 72 =>
              /\ Len(m) = 72
              /\ SubSeq(m, 70, 72) = <<"dot", "dot", "dot">>
              /\ SubSeq(m, 1, 69) = SubSeq(raw, 1, 69)
         /\ Len(raw) <= 72 => m = raw

\* a template that expands to 73 characters was cut to 72
C32_Witness ==
  \E w \in Procs :
    /\ wf[w].template # <<>>
    /\ Len(Expand(wf[w].template, wf[w].files)) = 73
    /\ Len(wf[w].message) = 72
    /\ wf[w].message[72] = "dot"

C34_NoMutualExclusion ==
  LET between == {"isClean", "files", "cc_clean", "cc_changes", "cc_add", "cc_staged",
                  "cc_commit"}
  IN /\ (isServiceRunning /\ wf[1].pc \in between /\ Quiet(2) /\ Capacity) =>
          ENABLED TriggerManualCommit
     /\ (isServiceRunning /\ wf[2].pc \in between /\ Quiet(1) /\ Capacity) =>
          ENABLED ScheduledFire

\* the scheduled fire and the manual trigger have both staged and neither
\* has committed yet
C34_Witness ==
  /\ wf[1].pc \in {"cc_staged", "cc_commit"} /\ wf[2].pc \in {"cc_staged", "cc_commit"}
  /\ wf[1].stages = 1 /\ wf[2].stages = 1
  /\ wf[1].commits = 0 /\ wf[2].commits = 0
  /\ repo.staged > 0 /\ repo.head = 0

\* C35: however the workflows and working-tree changes interleave, the
\* commit id of a successful result is the commit that workflow's own commit
\* step created, and two successful results never carry the same commit id.
C35_ResultNamesOwnCommit ==
  LET committed(w) == wf[w].pc = "done" /\ wf[w].res.success /\ wf[w].res.commitHash # 0
  IN /\ \A w \in Procs : committed(w) => wf[w].res.commitHash = wf[w].own
     /\ \A w \in Procs : \A v \in Procs \ {w} :
          (committed(w) /\ committed(v)) => wf[w].res.commitHash # wf[v].res.commitHash

\* C36: with any valid retryAttempts, 0 included, an executeCommit() that
\* gets as far as createCommitWithRetry makes at least one commit attempt,
\* and it reports a failed commit only when an attempt failed.
C36_AtLeastOneAttempt ==
  \A w \in Procs :
    (wf[w].kind = "exec" /\ wf[w].pc = "done" /\ ~wf[w].res.success
     /\ wf[w].res.message = MsgCommit(wf[w].blank)) =>
      /\ wf[w].attempts >= 1
      /\ wf[w].genFails >= 1 \/ wf[w].nrAt >= 1

\* C37: loading the persisted state never makes a scheduler that is not
\* running report running: after handleMissedExecutions() or initialize()
\* isRunning() is true only if it was true before, so a later start() still
\* starts.
C37_LoadNeverSetsRunning ==
  [][((HandleMissedExecutions \/ SchedulerInitialize) /\ ~isRunning(SchedulerNow)) =>
       ~(task' # NoTask /\ state'.isActive)]_vars

\* C38: when the callback throws during a scheduled fire, nothing leaves the
\* timer handler: the task and its timer stay as they were, a running
\* scheduler stays running, and lastRun and nextRun are those of this fire.
C38_ThrowingCallbackSwallowed ==
  [][(Fire /\ \E tm \in hist'.fired : tm.cb = "throws") =>
       /\ task' = task /\ callback' = callback /\ hist'.orphans = hist.orphans
       /\ state'.isActive = state.isActive
       /\ state'.lastRun = toISOString(now)
       /\ state'.nextRun = toISOString(getNextCronDate(cronExpression, now))
       /\ lastError' = lastError]_vars

\* a started scheduler fired a throwing callback and is still running
C38_Witness ==
  /\ hist.lastFired = now
  /\ \E tm \in hist.fired : tm.cb = "throws" /\ tm.live = "task"
  /\ isRunning(SchedulerNow) /\ task.timerOn
  /\ state.lastRun = toISOString(now)

\* C39: a scheduler that was scheduled, started and stopped starts again
\* with start() alone: start() on a scheduler that still holds its
\* expression and callback but no task leaves it running with that callback
\* on the timer.
C39_RestartAfterStop ==
  [][\A writeOk \in BOOLEAN :
       (StartCall(writeOk) /\ task = NoTask /\ callback # "none" /\ cronExpression # "") =>
         /\ task' # NoTask /\ state'.isActive
         /\ task'.cb = callback /\ task'.timerOn]_vars

\* C40: ServiceManager never keeps an instance whose bring-up failed: when
\* initialize() or start() of the new service fails inside
\* ServiceManager.initialize(), getService() is null afterwards, so that a
\* later ServiceManager.initialize() tries again.
C40_FailedBringUpNotKept ==
  [][(ManagerInitialize /\ ~managed /\ ~isInitialized') => ~managed']_vars

====
